---- MODULE Spec2Model ----
(***************************************************************************)
(* A model of the PPE detection pipeline of                               *)
(* src/06_roi_email_logging_ppe_detection.py: the centroid tracker        *)
(* (PersonTracker), the session ledger and the frame loop of              *)
(* PPEDetectionApp, the cooldown-gated alerts and the e-mail worker pool, *)
(* and the SQLite tables written by Database.                             *)
(***************************************************************************)
EXTENDS Integers, Sequences, FiniteSets, TLC

(***************************************************************************)
(* Bounds of the model.                                                    *)
(***************************************************************************)
\* PersonTracker(max_distance, memory_frames): the memory window the
\* tracker is constructed with.  The application passes
\* TRACKING_MEMORY_FRAMES = 30; the model instantiates a shorter window.
MemoryFrames == 2
\* the largest number of tracks the model lets the tracker register
MaxId == 3
\* the largest number of person boxes in one frame
MaxBoxes == 2
\* the clock stops after MaxClock seconds when only alerts are driven
MaxClock == 31
\* the largest number of trigger_alert calls when only alerts are driven
MaxTriggers == 2
\* the clock stops after MaxTime seconds when the whole application runs
MaxTime == 3
\* the largest number of detection sessions started
MaxSessions == 2
\* the largest number of database calls that raise
MaxFailures == 1
\* the clock stops after MaxDay days when only update_daily_stats is driven
MaxDay == 1
\* the largest number of update_daily_stats calls when only it is driven
MaxUpserts == 3
\* the largest total_people passed to update_daily_stats when only it is driven
MaxCount == 1
\* the largest number of frames processed when the Telegram variant is driven
MaxFrames == 3

(***************************************************************************)
(* Program constants.                                                      *)
(***************************************************************************)
TRACKING_DISTANCE_THRESHOLD == 50
ALERT_COOLDOWN == 3
EMAIL_COOLDOWN == 30
\* src/05_roi_telegram_ppe_detection.py
TELEGRAM_COOLDOWN == 30
\* ThreadPoolExecutor(max_workers=2)
MaxWorkers == 2

\* last_alert_time = None, last_email_time = None
NoTime == -1

VIOLATION_MODE == 1
PERSON_CLASS == "Person"
PPE_PROPER == <<"helmet", "gloves", "vest", "boots", "goggles">>
PPE_VIOLATIONS == <<"no_helmet", "no_goggle", "no_gloves", "no_boots", "none">>
REQUIRED_PPE == <<"helmet", "vest">>
CAMERA_ZONE_NAME == "Main Entrance"

\* best_match_id = None: no identity (identities start at 1)
NoMatch == 0

(***************************************************************************)
(* Inputs: person boxes (x, y, w, h).  BoxA and BoxB have centroids 30     *)
(* pixels apart (inside the distance threshold); BoxD is exactly 50 pixels *)
(* from BoxB (on the threshold, hence no match) and 80 from BoxA.  BoxA    *)
(* has odd sides: its centroid (10, 10) is rounded down.                   *)
(***************************************************************************)
BoxA == <<0, 0, 21, 21>>
BoxB == <<30, 0, 20, 20>>
BoxD == <<80, 0, 20, 20>>
Boxes == {BoxA, BoxB, BoxD}

RECURSIVE SeqsUpTo(_, _)
SeqsUpTo(S, n) ==
    IF n = 0 THEN {<<>>}
    ELSE LET shorter == SeqsUpTo(S, n - 1)
         IN  shorter \cup {Append(s, x) : s \in {t \in shorter : Len(t) = n - 1}, x \in S}

BoxLists == SeqsUpTo(Boxes, MaxBoxes)

(***************************************************************************)
(* Inputs: the detections of one frame, as the detector returns them: a    *)
(* class name, a confidence (in percent) and a box (x1, y1, x2, y2).  The  *)
(* coordinates are whole pixels.  A person comes with the PPE detected on  *)
(* it; the boxes of its PPE cover the person box.                          *)
(***************************************************************************)
PersonA == <<0, 0, 21, 21>>
PersonD == <<80, 0, 100, 20>>

Det(class, bbox) == [class |-> class, confidence |-> 90, bbox |-> bbox]

Wearing(bbox, classes) ==
    <<Det(PERSON_CLASS, bbox)>> \o [i \in 1..Len(classes) |-> Det(classes[i], bbox)]

\* the items detected on a person without a helmet
NoHelmet == <<"gloves", "vest", "boots", "goggles">>

\* the kinds of person a frame of the application run can show: one
\* wearing all five items and one without a helmet
Kinds == {PPE_PROPER, NoHelmet}

\* the left person is seen either way, the right one without a helmet
People == {Wearing(PersonA, kind) : kind \in Kinds} \cup {Wearing(PersonD, NoHelmet)}

RECURSIVE Flatten(_)
Flatten(ss) == IF ss = <<>> THEN <<>> ELSE Head(ss) \o Flatten(Tail(ss))

Frames == {Flatten(f) : f \in SeqsUpTo(People, MaxBoxes)}

\* a person box of no width, as a detector can return at the edge of the
\* image, away from the other persons; nothing is detected on it
PersonZ == <<200, 0, 200, 20>>

\* frames showing a person wearing all five items, a person of no width,
\* both in either order, or neither
DegenerateFrames ==
    {Flatten(f) : f \in SeqsUpTo({Wearing(PersonA, PPE_PROPER), Wearing(PersonZ, <<>>)},
                                  MaxBoxes)}

VARIABLES
    next_id,          \* PersonTracker.next_id
    tracked_persons,  \* PersonTracker.tracked_persons, in insertion order
    lastBoxes,        \* the argument of the latest update() call
    lastIds,          \* the list the latest update() call returned
    regLog,           \* history: the identity of every track created since the last reset
    retired,          \* history: the identities of the tracks created before the last reset
    expired,          \* history: tracks removed by the memory window since the last reset
    missRun,          \* history: consecutive update() calls that did not return an identity
    repeated          \* history: the latest update() got the single box of the call before

VARIABLES
    now,              \* the clock get_local_now() reads, in seconds
    last_alert_time,  \* PPEDetectionApp.last_alert_time
    last_email_time,  \* PPEDetectionApp.last_email_time
    email_checked,    \* email_enabled_checkbox.isChecked()
    notifier_enabled, \* EmailNotifier.enabled
    current_frame,    \* PPEDetectionApp.current_frame: "none" or "frame"
    alert_log,        \* the lines appended to PPEDetectionApp.alert_log
    emailJobs,        \* the jobs submitted to EmailNotifier.executor, oldest first
    alertCalls,       \* history: the times trigger_alert was called
    emailCalls,       \* history: <<time, jobs failed so far>> of every call of
                      \* send_email_notification that reached its cooldown check
    telegram          \* the Telegram variant (05_roi_telegram_ppe_detection.py):
                      \* TelegramNotifier.enabled, the checkbox, last_telegram_time,
                      \* where the frame loop is (pc), whether a request is in
                      \* flight, and the number of frames processed

VARIABLES
    cap,                   \* PPEDetectionApp.cap is an opened capture (the timer runs)
    closed,                \* the window was closed: the event loop has returned
    violation_mode,        \* PPEDetectionApp.violation_mode
    session_total_people,  \* PPEDetectionApp.session_total_people
    session_compliant,     \* PPEDetectionApp.session_compliant
    session_violations,    \* PPEDetectionApp.session_violations
    logged_person_ids,     \* PPEDetectionApp.logged_person_ids
    db_violations,         \* the rows of table violations, oldest first
    db_detections,         \* the rows of table detections, oldest first
    daily_stats,           \* the rows of table daily_stats
    daily_seq,             \* the largest id table daily_stats has given out
    daily_calls,           \* history: the calls of update_daily_stats, oldest first
    session,               \* history: the number of sessions started
    failures,              \* history: the number of database calls that raised
    sessionIds,            \* history: the identities update() returned in this session
    eval                   \* one call of check_violations: its inputs and what it returned

trackerVars == <<next_id, tracked_persons, lastBoxes, lastIds, regLog, retired, expired, missRun, repeated>>
alertVars == <<last_alert_time, last_email_time, current_frame, alert_log, emailJobs, alertCalls, emailCalls>>
envVars == <<now, email_checked, notifier_enabled, telegram>>
ledgerVars == <<cap, closed, session_total_people, session_compliant, session_violations,
                logged_person_ids, session, sessionIds, failures>>
dbVars == <<db_violations, db_detections, daily_stats, daily_seq, daily_calls>>
appVars == <<ledgerVars, dbVars, violation_mode, eval>>
vars == <<trackerVars, alertVars, envVars, appVars>>

(***************************************************************************)
(* PersonTracker                                                           *)
(***************************************************************************)
\* cx = x + w // 2, cy = y + h // 2
Centroid(b) == <<b[1] + (b[3] \div 2), b[2] + (b[4] \div 2)>>

Centroids(detections) == [i \in 1..Len(detections) |-> Centroid(detections[i])]

\* _calculate_distance returns the Euclidean distance; the model keeps its
\* square, which orders the same and compares the same with the threshold.
DistanceSq(c1, c2) ==
    (c1[1] - c2[1]) * (c1[1] - c2[1]) + (c1[2] - c2[2]) * (c1[2] - c2[2])

\* the threshold test with the comparison turned round
MutWithinMaxDistance(dsq) ==
    dsq > TRACKING_DISTANCE_THRESHOLD * TRACKING_DISTANCE_THRESHOLD

WithinMaxDistance(dsq) ==
    dsq < TRACKING_DISTANCE_THRESHOLD * TRACKING_DISTANCE_THRESHOLD

Track(id, c) == [id |-> id, centroid |-> c, frames_missing |-> 0, logged |-> FALSE]

\* _register without "self.next_id += 1"
MutRegister(persons, next, c) ==
    [persons |-> Append(persons, Track(next, c)), next |-> next, id |-> next]

\* _register: the tracker after registering centroid c, and the identity.
Register(persons, next, c) ==
    [persons |-> Append(persons, Track(next, c)), next |-> next + 1, id |-> next]

\* the removal test one frame early
MutTooOldEarly(t) == t.frames_missing >= MemoryFrames

\* the removal test one frame late
MutTooOld(t) == t.frames_missing > MemoryFrames + 1

TooOld(t) == t.frames_missing > MemoryFrames

\* ageing without "frames_missing += 1"
MutMissed(t) == t

Missed(t) == [t EXCEPT !.frames_missing = @ + 1]

\* the loops that add one to frames_missing of every track whose identity is
\* not in `used` and delete the tracks that are then over the memory window
RECURSIVE AgeUnmatched(_, _)
AgeUnmatched(persons, used) ==
    IF persons = <<>> THEN <<>>
    ELSE LET t == Head(persons)
             rest == AgeUnmatched(Tail(persons), used)
         IN  IF t.id \in used THEN <<t>> \o rest
             ELSE IF TooOld(Missed(t)) THEN rest
             ELSE <<Missed(t)>> \o rest

\* the inner loop without "if tracked_id in used_tracked_ids: continue"
RECURSIVE MutBestMatch(_, _, _, _, _, _)
MutBestMatch(c, snapshot, used, i, minD, best) ==
    IF i > Len(snapshot) THEN best
    ELSE LET t == snapshot[i]
             d == DistanceSq(c, t.centroid)
         IN  IF (minD = -1 \/ d < minD) /\ WithinMaxDistance(d)
             THEN MutBestMatch(c, snapshot, used, i + 1, d, t.id)
             ELSE MutBestMatch(c, snapshot, used, i + 1, minD, best)

\* the inner loop over tracked_ids: the first nearest unused track inside
\* max_distance; minD = -1 stands for float('inf')
RECURSIVE BestMatch(_, _, _, _, _, _)
BestMatch(c, snapshot, used, i, minD, best) ==
    IF i > Len(snapshot) THEN best
    ELSE LET t == snapshot[i]
             d == DistanceSq(c, t.centroid)
         IN  IF t.id \in used THEN BestMatch(c, snapshot, used, i + 1, minD, best)
             ELSE IF (minD = -1 \/ d < minD) /\ WithinMaxDistance(d)
                  THEN BestMatch(c, snapshot, used, i + 1, d, t.id)
                  ELSE BestMatch(c, snapshot, used, i + 1, minD, best)

\* the match that leaves the centroid of the track where it was
MutMatched(persons, id, c) ==
    [i \in 1..Len(persons) |->
        IF persons[i].id = id
        THEN [persons[i] EXCEPT !.frames_missing = 0]
        ELSE persons[i]]

Matched(persons, id, c) ==
    [i \in 1..Len(persons) |->
        IF persons[i].id = id
        THEN [persons[i] EXCEPT !.centroid = c, !.frames_missing = 0]
        ELSE persons[i]]

\* the loop over current_centroids of the matching branch
\* (reg collects the identities _register handed out, for the history)
RECURSIVE MatchLoop(_, _, _, _, _, _, _, _)
MatchLoop(cents, k, snapshot, persons, next, used, ids, reg) ==
    IF k > Len(cents)
    THEN [persons |-> persons, next |-> next, used |-> used, ids |-> ids, reg |-> reg]
    ELSE LET best == BestMatch(cents[k], snapshot, used, 1, -1, NoMatch)
             r == Register(persons, next, cents[k])
         IN  IF best # NoMatch
             THEN MatchLoop(cents, k + 1, snapshot, Matched(persons, best, cents[k]),
                            next, used \cup {best}, Append(ids, best), reg)
             ELSE MatchLoop(cents, k + 1, snapshot, r.persons, r.next, used,
                            Append(ids, r.id), Append(reg, r.id))

\* the branch taken when no track exists: every centroid is registered
RECURSIVE RegisterAll(_, _, _, _, _)
RegisterAll(cents, k, persons, next, ids) ==
    IF k > Len(cents) THEN [persons |-> persons, next |-> next, ids |-> ids, reg |-> ids]
    ELSE LET r == Register(persons, next, cents[k])
         IN  RegisterAll(cents, k + 1, r.persons, r.next, Append(ids, r.id))

Ids(persons) == {persons[i].id : i \in 1..Len(persons)}

SeqSet(s) == {s[i] : i \in 1..Len(s)}

\* PersonTracker.update(detections): the tracker after the call, the list
\* it returns (ids) and the identities it registered (reg)
TrackerUpdate(persons, next, detections) ==
    LET cents == Centroids(detections)
        m == MatchLoop(cents, 1, persons, persons, next, {}, <<>>, <<>>)
    IN  IF Len(cents) = 0
        THEN [persons |-> AgeUnmatched(persons, {}), next |-> next,
              ids |-> <<>>, reg |-> <<>>]
        ELSE IF Len(persons) = 0
        THEN RegisterAll(cents, 1, persons, next, <<>>)
        ELSE [persons |-> AgeUnmatched(m.persons, m.used \cup SeqSet(m.reg)),
              next |-> m.next, ids |-> m.ids, reg |-> m.reg]

\* reset that clears the tracks and keeps the numbering
MutTrackerReset == [persons |-> <<>>, next |-> next_id]

\* PersonTracker.reset
TrackerReset == [persons |-> <<>>, next |-> 1]

\* history kept beside one update() call
UpdateHistory(r, detections) ==
    /\ lastBoxes' = detections
    /\ lastIds' = r.ids
    /\ regLog' = regLog \o r.reg
    /\ retired' = retired
    /\ expired' = expired \cup
          {[id |-> t.id, centroid |-> t.centroid] :
              t \in {u \in SeqSet(tracked_persons) : u.id \notin Ids(r.persons)}}
    /\ missRun' = [id \in Ids(r.persons) |->
                      IF id \in SeqSet(r.ids) THEN 0
                      ELSE IF id \in DOMAIN missRun THEN missRun[id] + 1 ELSE 0]
    /\ repeated' = (Len(detections) = 1 /\ detections = lastBoxes)

\* a call of PersonTracker.update
Update(detections) ==
    \E r \in {TrackerUpdate(tracked_persons, next_id, detections)} :
        /\ Len(regLog) + Len(r.reg) <= MaxId
        /\ tracked_persons' = r.persons
        /\ next_id' = r.next
        /\ UpdateHistory(r, detections)
        /\ UNCHANGED <<alertVars, envVars, appVars>>

TrackerInit ==
    /\ next_id = 1
    /\ tracked_persons = <<>>
    /\ lastBoxes = <<>>
    /\ lastIds = <<>>
    /\ regLog = <<>>
    /\ retired = <<>>
    /\ expired = {}
    /\ missRun = <<>>
    /\ repeated = FALSE

(***************************************************************************)
(* Alerts: PPEDetectionApp.trigger_alert, send_email_notification and     *)
(* EmailNotifier.  The alert state is threaded through the operators as a *)
(* record with the fields of alertVars.                                    *)
(***************************************************************************)
AlertState ==
    [last_alert_time |-> last_alert_time, last_email_time |-> last_email_time,
     current_frame |-> current_frame, alert_log |-> alert_log,
     emailJobs |-> emailJobs, alertCalls |-> alertCalls, emailCalls |-> emailCalls]

SetAlertState(al) ==
    /\ last_alert_time' = al.last_alert_time
    /\ last_email_time' = al.last_email_time
    /\ current_frame' = al.current_frame
    /\ alert_log' = al.alert_log
    /\ emailJobs' = al.emailJobs
    /\ alertCalls' = al.alertCalls
    /\ emailCalls' = al.emailCalls

\* the cooldown check without "is not None"
MutInCooldown(last, cooldown) == now - last < cooldown

\* the cooldown checks: last is not None and now - last < cooldown
InCooldown(last, cooldown) == last # NoTime /\ now - last < cooldown

\* EmailNotifier.send_email_async: a copy of the image goes to the pool
SendEmailAsync(jobs, msg, image) ==
    IF ~notifier_enabled THEN jobs
    ELSE Append(jobs, [t |-> now, msg |-> msg, image |-> image,
                       state |-> "queued", attempts |-> 0])

Failed(jobs) == {j \in 1..Len(jobs) : jobs[j].state = "failed"}

\* send_email_notification restarting the window on a suppressed call
MutSendEmailNotification(al, msg) ==
    IF ~email_checked THEN al
    ELSE LET called == [al EXCEPT !.emailCalls =
                                     Append(@, <<now, Cardinality(Failed(al.emailJobs))>>)]
         IN  IF InCooldown(al.last_email_time, EMAIL_COOLDOWN)
             THEN [called EXCEPT !.last_email_time = now]
             ELSE IF al.current_frame = "none"
             THEN [called EXCEPT !.last_email_time = now]
             ELSE [called EXCEPT
                     !.last_email_time = now,
                     !.emailJobs = SendEmailAsync(@, msg, al.current_frame),
                     !.alert_log = Append(@, <<"EMAIL", now>>)]

\* PPEDetectionApp.send_email_notification
SendEmailNotification(al, msg) ==
    IF ~email_checked THEN al
    ELSE LET called == [al EXCEPT !.emailCalls =
                                     Append(@, <<now, Cardinality(Failed(al.emailJobs))>>)]
         IN  IF InCooldown(al.last_email_time, EMAIL_COOLDOWN) THEN called
             ELSE IF al.current_frame = "none"
             THEN [called EXCEPT !.last_email_time = now]
             ELSE [called EXCEPT
                     !.last_email_time = now,
                     !.emailJobs = SendEmailAsync(@, msg, al.current_frame),
                     !.alert_log = Append(@, <<"EMAIL", now>>)]

\* trigger_alert without "self.last_alert_time = current_time"
MutTriggerAlert(al, msg) ==
    LET called == [al EXCEPT !.alertCalls = Append(@, now)]
    IN  IF InCooldown(al.last_alert_time, ALERT_COOLDOWN) THEN called
        ELSE SendEmailNotification(
                 [called EXCEPT !.alert_log = Append(@, <<"ALERT", now>>)], msg)

\* PPEDetectionApp.trigger_alert
TriggerAlert(al, msg) ==
    LET called == [al EXCEPT !.alertCalls = Append(@, now)]
    IN  IF InCooldown(al.last_alert_time, ALERT_COOLDOWN) THEN called
        ELSE SendEmailNotification(
                 [called EXCEPT !.last_alert_time = now,
                                !.alert_log = Append(@, <<"ALERT", now>>)], msg)

Running(jobs) == {j \in 1..Len(jobs) : jobs[j].state = "running"}
Queued(jobs) == {j \in 1..Len(jobs) : jobs[j].state = "queued"}

\* a worker that restarts the e-mail cooldown when it begins to send
MutJobStart ==
    /\ Cardinality(Running(emailJobs)) < MaxWorkers
    /\ Queued(emailJobs) # {}
    /\ LET j == CHOOSE q \in Queued(emailJobs) : \A o \in Queued(emailJobs) : q <= o
       IN  emailJobs' = [emailJobs EXCEPT ![j].state = "running", ![j].attempts = @ + 1]
    /\ last_email_time' = now
    /\ UNCHANGED <<last_alert_time, current_frame, alert_log, alertCalls, emailCalls>>
    /\ UNCHANGED <<trackerVars, envVars, appVars>>

\* a worker of the pool takes the oldest queued job and calls send_email
JobStart ==
    /\ Cardinality(Running(emailJobs)) < MaxWorkers
    /\ Queued(emailJobs) # {}
    /\ LET j == CHOOSE q \in Queued(emailJobs) : \A o \in Queued(emailJobs) : q <= o
       IN  emailJobs' = [emailJobs EXCEPT ![j].state = "running", ![j].attempts = @ + 1]
    /\ UNCHANGED <<last_alert_time, last_email_time, current_frame, alert_log,
                   alertCalls, emailCalls>>
    /\ UNCHANGED <<trackerVars, envVars, appVars>>

\* a pool that puts a failed job back in the queue
MutJobFinish ==
    \E j \in Running(emailJobs) : \E ok \in BOOLEAN :
        /\ emailJobs' = [emailJobs EXCEPT ![j].state = IF ok THEN "sent" ELSE "queued"]
        /\ UNCHANGED <<last_alert_time, last_email_time, current_frame, alert_log,
                       alertCalls, emailCalls>>
        /\ UNCHANGED <<trackerVars, envVars, appVars>>

\* send_email returns True, or False after an exception was caught
JobFinish ==
    \E j \in Running(emailJobs) : \E ok \in BOOLEAN :
        /\ emailJobs' = [emailJobs EXCEPT ![j].state = IF ok THEN "sent" ELSE "failed"]
        /\ UNCHANGED <<last_alert_time, last_email_time, current_frame, alert_log,
                       alertCalls, emailCalls>>
        /\ UNCHANGED <<trackerVars, envVars, appVars>>

\* the user clicks the e-mail checkbox (it is disabled when the notifier is)
ToggleEmail ==
    /\ notifier_enabled
    /\ email_checked' = ~email_checked
    /\ UNCHANGED <<now, notifier_enabled, telegram, trackerVars, alertVars, appVars>>

\* a second passes
Tick(limit) ==
    /\ now < limit
    /\ now' = now + 1
    /\ UNCHANGED <<email_checked, notifier_enabled, telegram, trackerVars, alertVars,
                   appVars>>

\* the Telegram variant is not running
NoTelegram ==
    [enabled |-> FALSE, checked |-> FALSE, last_telegram_time |-> NoTime,
     pc |-> "idle", inflight |-> FALSE, frames |-> 0]

AlertInit ==
    /\ now = 0
    /\ last_alert_time = NoTime
    /\ last_email_time = NoTime
    /\ notifier_enabled \in BOOLEAN
    /\ email_checked = notifier_enabled
    /\ alert_log = <<>>
    /\ emailJobs = <<>>
    /\ alertCalls = <<>>
    /\ emailCalls = <<>>

(***************************************************************************)
(* PPEDetectionApp.check_violations                                        *)
(***************************************************************************)
Max(a, b) == IF a >= b THEN a ELSE b
Min(a, b) == IF a <= b THEN a ELSE b

\* "overlap_ratio > threshold".  The boxes come from box.xyxy[0].cpu().numpy(),
\* so the ratio inter_area / bbox1_area is a float32, and the threshold 0.3 is
\* a Python float.  NumPy before 2.0 widens the ratio to float64 for the
\* comparison (wide = TRUE); NumPy from 2.0 narrows the threshold to float32
\* (wide = FALSE).  For whole-pixel boxes the quotient is either 3/10 or
\* further from it than float32 resolves, so the comparison is the exact one
\* except at 3/10: float32(0.3) = 0.300000012 is above the float64 0.3 and
\* equal to the float32 0.3.
OverThreshold(wide, inter_area, bbox1_area) ==
    \/ 10 * inter_area > 3 * bbox1_area
    \/ wide /\ 10 * inter_area = 3 * bbox1_area

\* _check_proximity(bbox1, bbox2, threshold=0.3)
CheckProximity(wide, bbox1, bbox2) ==
    LET x_inter_min == Max(bbox1[1], bbox2[1])
        y_inter_min == Max(bbox1[2], bbox2[2])
        x_inter_max == Min(bbox1[3], bbox2[3])
        y_inter_max == Min(bbox1[4], bbox2[4])
        inter_area == (x_inter_max - x_inter_min) * (y_inter_max - y_inter_min)
        bbox1_area == (bbox1[3] - bbox1[1]) * (bbox1[4] - bbox1[2])
    IN  IF x_inter_max < x_inter_min \/ y_inter_max < y_inter_min THEN FALSE
        ELSE IF bbox1_area > 0 THEN OverThreshold(wide, inter_area, bbox1_area)
        ELSE FALSE

\* some detection of class `class` is near the person box
Near(wide, dets, person_bbox, class) ==
    \E k \in 1..Len(dets) :
        dets[k].class = class /\ CheckProximity(wide, person_bbox, dets[k].bbox)

PpeStatus(wide, dets, person_bbox) ==
    [item \in SeqSet(PPE_PROPER) |-> Near(wide, dets, person_bbox, item)]

\* violation_detected: the first class of PPE_VIOLATIONS near the person,
\* or "" for None
RECURSIVE ViolationDetected(_, _, _, _)
ViolationDetected(wide, dets, person_bbox, v) ==
    IF v > Len(PPE_VIOLATIONS) THEN ""
    ELSE IF Near(wide, dets, person_bbox, PPE_VIOLATIONS[v]) THEN PPE_VIOLATIONS[v]
    ELSE ViolationDetected(wide, dets, person_bbox, v + 1)

\* the missing items taken over all of PPE_PROPER, whatever list is asked for
MutMissing(items, ppe_status) ==
    LET IsMissing(item) == ~ppe_status[item]
    IN  SelectSeq(PPE_PROPER, IsMissing)

\* [ppe for ppe in items if not ppe_status.get(ppe, False)]
Missing(items, ppe_status) ==
    LET IsMissing(item) == ~ppe_status[item]
    IN  SelectSeq(items, IsMissing)

NoPrefixed(items) == {"no_" \o items[i] : i \in 1..Len(items)}

\* the mode 1 verdict that looks at the missing items first
MutVerdict(required, mode, violation_detected, ppe_status) ==
    IF mode = 1
    THEN IF Missing(PPE_PROPER, ppe_status) # <<>>
         THEN <<TRUE, <<"Missing PPE", Missing(PPE_PROPER, ppe_status)>>>>
         ELSE IF violation_detected # ""
         THEN <<TRUE, <<"Violation detected", violation_detected>>>>
         ELSE <<FALSE, <<>>>>
    ELSE IF violation_detected # "" /\ violation_detected \in NoPrefixed(required)
         THEN <<TRUE, <<"Required PPE violation", violation_detected>>>>
         ELSE IF Missing(required, ppe_status) # <<>>
         THEN <<TRUE, <<"Missing required PPE", Missing(required, ppe_status)>>>>
         ELSE <<FALSE, <<>>>>

\* the verdict on one person: <<has_violation, violation_message>>
Verdict(required, mode, violation_detected, ppe_status) ==
    IF mode = 1
    THEN IF violation_detected # ""
         THEN <<TRUE, <<"Violation detected", violation_detected>>>>
         ELSE IF Missing(PPE_PROPER, ppe_status) # <<>>
         THEN <<TRUE, <<"Missing PPE", Missing(PPE_PROPER, ppe_status)>>>>
         ELSE <<FALSE, <<>>>>
    ELSE IF violation_detected # "" /\ violation_detected \in NoPrefixed(required)
         THEN <<TRUE, <<"Required PPE violation", violation_detected>>>>
         ELSE IF Missing(required, ppe_status) # <<>>
         THEN <<TRUE, <<"Missing required PPE", Missing(required, ppe_status)>>>>
         ELSE <<FALSE, <<>>>>

PersonResult(wide, required, dets, mode, person_det) ==
    LET ppe_status == PpeStatus(wide, dets, person_det.bbox)
        verdict == Verdict(required, mode,
                           ViolationDetected(wide, dets, person_det.bbox, 1), ppe_status)
    IN  [has_violation |-> verdict[1], violation_message |-> verdict[2],
         ppe_status |-> ppe_status, confidence |-> person_det.confidence,
         bbox |-> person_det.bbox]

\* check_violations(results): one result per detection of class Person, in
\* order; `required` is the list REQUIRED_PPE the module is configured with
CheckViolations(wide, required, dets, mode) ==
    LET IsPerson(d) == d.class = PERSON_CLASS
        person_detections == SelectSeq(dets, IsPerson)
    IN  [i \in 1..Len(person_detections) |-> PersonResult(wide, required, dets, mode, person_detections[i])]

\* no call of check_violations is under observation
NoEval ==
    [wide |-> FALSE, required |-> REQUIRED_PPE, mode |-> VIOLATION_MODE,
     dets |-> <<>>, done |-> FALSE, results |-> <<>>]

(***************************************************************************)
(* Database                                                                *)
(***************************************************************************)
\* get_local_date(): the day the clock is in
SecondsPerDay == 86400
Today == now \div SecondsPerDay

RECURSIVE Gcd(_, _)
Gcd(a, b) == IF b = 0 THEN a ELSE Gcd(b, a % b)

\* (compliant_people / total_people * 100) if total_people > 0 else 0, kept
\* as the fraction in lowest terms the float is the rounding of
ComplianceRate(compliant_people, total_people) ==
    IF total_people > 0
    THEN LET g == Gcd(compliant_people * 100, total_people)
         IN  <<(compliant_people * 100) \div g, total_people \div g>>
    ELSE <<0, 1>>

\* an upsert that adds the counts to the row of the key
MutUpdateDailyStats(table, seq, zone_name, total_people, compliant_people, violation_people) ==
    LET old == {row \in table : row.date = Today /\ row.zone_name = zone_name}
        prev == IF old = {}
                THEN [total_people |-> 0, compliant_people |-> 0, violation_people |-> 0]
                ELSE CHOOSE row \in old : TRUE
    IN  (table \ old) \cup
        {[id |-> seq + 1, date |-> Today, zone_name |-> zone_name,
          total_people |-> prev.total_people + total_people,
          compliant_people |-> prev.compliant_people + compliant_people,
          violation_people |-> prev.violation_people + violation_people,
          compliance_rate |-> ComplianceRate(prev.compliant_people + compliant_people,
                                             prev.total_people + total_people)]}

\* INSERT OR REPLACE INTO daily_stats under UNIQUE(date, zone_name): the row
\* of the key is deleted and a new row is inserted, which id INTEGER PRIMARY
\* KEY AUTOINCREMENT gives the id after the largest one given out (seq)
UpdateDailyStats(table, seq, zone_name, total_people, compliant_people, violation_people) ==
    {row \in table : ~(row.date = Today /\ row.zone_name = zone_name)} \cup
    {[id |-> seq + 1, date |-> Today, zone_name |-> zone_name,
      total_people |-> total_people, compliant_people |-> compliant_people,
      violation_people |-> violation_people,
      compliance_rate |-> ComplianceRate(compliant_people, total_people)]}

\* INSERT INTO violations (session stands for the timestamp of the row)
LogViolation(table, violation_type, person_id, confidence) ==
    Append(table, [session |-> session, zone_name |-> CAMERA_ZONE_NAME,
                   violation_type |-> violation_type, person_id |-> person_id,
                   confidence |-> confidence])

\* INSERT INTO detections
LogDetection(table, person_id, ppe_status, is_compliant) ==
    Append(table, [session |-> session, zone_name |-> CAMERA_ZONE_NAME,
                   person_id |-> person_id, ppe_status |-> ppe_status,
                   is_compliant |-> is_compliant])

(***************************************************************************)
(* PPEDetectionApp: the session and the frame loop                         *)
(***************************************************************************)
\* x, y, w, h of a box x1, y1, x2, y2
XYWH(bbox) == <<bbox[1], bbox[2], bbox[3] - bbox[1], bbox[4] - bbox[2]>>

\* the state the loop over violation_results works on
LoopState ==
    [total |-> session_total_people, compliant |-> session_compliant,
     violations |-> session_violations, logged |-> logged_person_ids,
     db_violations |-> db_violations, db_detections |-> db_detections,
     al |-> [AlertState EXCEPT !.current_frame = "frame"],
     calls |-> 0, raised |-> FALSE]

\* the body that counts the violation after log_violation has returned
MutLogViolator(st, failAt, person_id, res) ==
    LET counted == [st EXCEPT !.logged = @ \cup {person_id}, !.total = @ + 1,
                              !.calls = @ + 1]
        written == [counted EXCEPT
                      !.violations = @ + 1,
                      !.db_violations = LogViolation(@, res.violation_message,
                                                     person_id, res.confidence),
                      !.al = TriggerAlert(@, res.violation_message),
                      !.calls = @ + 1]
    IN  IF counted.calls = failAt THEN [counted EXCEPT !.raised = TRUE]
        ELSE IF written.calls = failAt THEN [written EXCEPT !.raised = TRUE]
        ELSE [written EXCEPT
                !.db_detections = LogDetection(@, person_id, res.ppe_status, FALSE)]

\* the body of "if person_id not in self.logged_person_ids" for a person in
\* violation; the failAt-th database call of the frame raises, which ends
\* the handler there
LogViolator(st, failAt, person_id, res) ==
    LET counted == [st EXCEPT !.logged = @ \cup {person_id}, !.total = @ + 1,
                              !.violations = @ + 1, !.calls = @ + 1]
        written == [counted EXCEPT
                      !.db_violations = LogViolation(@, res.violation_message,
                                                     person_id, res.confidence),
                      !.al = TriggerAlert(@, res.violation_message),
                      !.calls = @ + 1]
    IN  IF counted.calls = failAt THEN [counted EXCEPT !.raised = TRUE]
        ELSE IF written.calls = failAt THEN [written EXCEPT !.raised = TRUE]
        ELSE [written EXCEPT
                !.db_detections = LogDetection(@, person_id, res.ppe_status, FALSE)]

\* the same for a compliant person
LogCompliant(st, failAt, person_id, res) ==
    LET counted == [st EXCEPT !.logged = @ \cup {person_id}, !.total = @ + 1,
                              !.compliant = @ + 1, !.calls = @ + 1]
    IN  IF counted.calls = failAt THEN [counted EXCEPT !.raised = TRUE]
        ELSE [counted EXCEPT
                !.db_detections = LogDetection(@, person_id, res.ppe_status, TRUE)]

\* the loop without "if person_id not in self.logged_person_ids"
RECURSIVE MutProcessPersons(_, _, _, _, _)
MutProcessPersons(st, failAt, results, person_ids, i) ==
    IF i > Len(results) \/ st.raised THEN st
    ELSE LET person_id == IF i <= Len(person_ids) THEN person_ids[i] ELSE i - 1
         IN  IF results[i].has_violation
             THEN MutProcessPersons(LogViolator(st, failAt, person_id, results[i]),
                                    failAt, results, person_ids, i + 1)
             ELSE MutProcessPersons(LogCompliant(st, failAt, person_id, results[i]),
                                    failAt, results, person_ids, i + 1)

\* the identity has a detection row in this session whose verdict is not
\* the one of `res`
VerdictChanged(st, person_id, res) ==
    \E k \in 1..Len(st.db_detections) :
        /\ st.db_detections[k].session = session
        /\ st.db_detections[k].person_id = person_id
        /\ st.db_detections[k].is_compliant = res.has_violation

\* the loop that processes a logged identity again when its verdict changed
RECURSIVE MutReprocess(_, _, _, _, _)
MutReprocess(st, failAt, results, person_ids, i) ==
    IF i > Len(results) \/ st.raised THEN st
    ELSE LET person_id == IF i <= Len(person_ids) THEN person_ids[i] ELSE i - 1
         IN  IF person_id \in st.logged /\ ~VerdictChanged(st, person_id, results[i])
             THEN MutReprocess(st, failAt, results, person_ids, i + 1)
             ELSE IF results[i].has_violation
             THEN MutReprocess(LogViolator(st, failAt, person_id, results[i]),
                               failAt, results, person_ids, i + 1)
             ELSE MutReprocess(LogCompliant(st, failAt, person_id, results[i]),
                               failAt, results, person_ids, i + 1)

\* "for i, v_result in enumerate(violation_results)"; the history of
\* trigger times is kept only where trigger_alert is driven directly
RECURSIVE ProcessPersons(_, _, _, _, _)
ProcessPersons(st, failAt, results, person_ids, i) ==
    IF i > Len(results) \/ st.raised THEN st
    ELSE LET person_id == IF i <= Len(person_ids) THEN person_ids[i] ELSE i - 1
         IN  IF person_id \in st.logged
             THEN ProcessPersons(st, failAt, results, person_ids, i + 1)
             ELSE IF results[i].has_violation
             THEN ProcessPersons(LogViolator(st, failAt, person_id, results[i]),
                                 failAt, results, person_ids, i + 1)
             ELSE ProcessPersons(LogCompliant(st, failAt, person_id, results[i]),
                                 failAt, results, person_ids, i + 1)

SetLoopState(st) ==
    /\ session_total_people' = st.total
    /\ session_compliant' = st.compliant
    /\ session_violations' = st.violations
    /\ logged_person_ids' = st.logged
    /\ db_violations' = st.db_violations
    /\ db_detections' = st.db_detections
    /\ SetAlertState([st.al EXCEPT !.alertCalls = alertCalls, !.emailCalls = emailCalls])

\* stop_detection; update_daily_stats may raise, after the timer was stopped.
\* The history of its calls is kept only where it is driven directly.
StopDetection(fails) ==
    /\ fails => (session_total_people > 0 /\ failures < MaxFailures)
    /\ failures' = failures + (IF fails THEN 1 ELSE 0)
    /\ cap' = FALSE
    /\ daily_stats' =
          IF session_total_people > 0 /\ ~fails
          THEN UpdateDailyStats(daily_stats, daily_seq, CAMERA_ZONE_NAME,
                                session_total_people, session_compliant,
                                session_violations)
          ELSE daily_stats
    /\ daily_seq' = daily_seq + (IF session_total_people > 0 /\ ~fails THEN 1 ELSE 0)
    /\ daily_calls' = daily_calls
    /\ UNCHANGED <<session_total_people, session_compliant, session_violations,
                   logged_person_ids, session, sessionIds, db_violations,
                   db_detections, violation_mode, eval>>
    /\ UNCHANGED <<trackerVars, alertVars, envVars>>

\* the user clicks "Stop Detection"
UserStop ==
    /\ ~closed
    /\ cap
    /\ \E fails \in BOOLEAN : StopDetection(fails)
    /\ closed' = closed

\* update_frame when cap.read() returns no frame: the stream has ended
EndOfStream ==
    /\ ~closed
    /\ cap
    /\ \E fails \in BOOLEAN : StopDetection(fails)
    /\ closed' = closed

\* closeEvent: stop_detection is called whether or not a session runs, then
\* the window closes and app.exec() returns
CloseEvent ==
    /\ ~closed
    /\ \E fails \in BOOLEAN : StopDetection(fails)
    /\ closed' = TRUE

\* check_violations on the frames of the application run, computed once
FrameResults ==
    [wide \in BOOLEAN |-> [mode \in {1, 2} |->
        [dets \in Frames \cup DegenerateFrames |->
            CheckViolations(wide, REQUIRED_PPE, dets, mode)]]]

\* what update_frame does to the tracker: update() is called only when the
\* frame shows a person
TrackFrame(person_bboxes) ==
    IF Len(person_bboxes) > 0
    THEN TrackerUpdate(tracked_persons, next_id, person_bboxes)
    ELSE [persons |-> tracked_persons, next |-> next_id, ids |-> <<>>, reg |-> <<>>]

PersonBoxes(violation_results) ==
    [i \in 1..Len(violation_results) |-> XYWH(violation_results[i].bbox)]

\* update_frame on a frame with detections `dets`; the failAt-th database
\* call of the frame raises (none when failAt is 0).  Of the tracker's
\* history the frame loop keeps the identities registered.
FrameStep(dets) ==
    /\ ~closed
    /\ cap
    /\ \E violation_results \in {FrameResults[wide][violation_mode][dets] : wide \in BOOLEAN} :
       \E person_bboxes \in {PersonBoxes(violation_results)} :
       \E r \in {TrackFrame(person_bboxes)} :
       Len(retired) + Len(regLog) + Len(r.reg) <= MaxId /\
       \E done \in {ProcessPersons(LoopState, 0, violation_results, r.ids, 1)} :
       \E failAt \in 0..(IF failures < MaxFailures THEN done.calls ELSE 0) :
       \E st \in {IF failAt = 0 THEN done
                  ELSE ProcessPersons(LoopState, failAt, violation_results, r.ids, 1)} :
          /\ tracked_persons' = r.persons
          /\ next_id' = r.next
          /\ regLog' = regLog \o r.reg
          /\ UNCHANGED <<retired, lastBoxes, lastIds, expired, repeated>>
          /\ SetLoopState(st)
          /\ sessionIds' = sessionIds \cup SeqSet(r.ids)
          /\ failures' = failures + (IF st.raised THEN 1 ELSE 0)
          /\ UNCHANGED <<cap, closed, session, daily_stats, daily_seq, daily_calls,
                       violation_mode, envVars>>

\* update_frame where neither the runs of missed frames nor the frame are
\* kept
ProcessFrame(dets) == FrameStep(dets) /\ UNCHANGED <<missRun, eval>>

\* the timer fires and cap.read() returns a frame
UpdateFrame == \E dets \in Frames : ProcessFrame(dets)

\* start_detection without "self.logged_person_ids = set()"
MutStartDetection ==
    /\ ~closed
    /\ ~cap
    /\ session < MaxSessions
    /\ cap' = TRUE
    /\ session_total_people' = 0
    /\ session_compliant' = 0
    /\ session_violations' = 0
    /\ logged_person_ids' = logged_person_ids
    /\ tracked_persons' = TrackerReset.persons
    /\ next_id' = TrackerReset.next
    /\ session' = session + 1
    /\ sessionIds' = {}
    /\ failures' = failures
    /\ retired' = retired \o regLog
    /\ regLog' = <<>>
    /\ UNCHANGED <<lastBoxes, lastIds, expired, missRun, repeated>>
    /\ UNCHANGED <<closed, dbVars, violation_mode, eval, alertVars, envVars>>

\* start_detection with a capture that opens: the session statistics and
\* the tracker are reset and the timer is started
StartDetection ==
    /\ ~closed
    /\ ~cap
    /\ session < MaxSessions
    /\ cap' = TRUE
    /\ session_total_people' = 0
    /\ session_compliant' = 0
    /\ session_violations' = 0
    /\ logged_person_ids' = {}
    /\ tracked_persons' = TrackerReset.persons
    /\ next_id' = TrackerReset.next
    /\ session' = session + 1
    /\ sessionIds' = {}
    /\ failures' = failures
    /\ retired' = retired \o regLog
    /\ regLog' = <<>>
    /\ UNCHANGED <<lastBoxes, lastIds, expired, missRun, repeated>>
    /\ UNCHANGED <<closed, dbVars, violation_mode, eval, alertVars, envVars>>

AppInit ==
    /\ cap = FALSE
    /\ closed = FALSE
    /\ violation_mode = VIOLATION_MODE
    /\ session_total_people = 0
    /\ session_compliant = 0
    /\ session_violations = 0
    /\ logged_person_ids = {}
    /\ db_violations = <<>>
    /\ db_detections = <<>>
    /\ daily_stats = {}
    /\ daily_seq = 0
    /\ daily_calls = <<>>
    /\ session = 0
    /\ failures = 0
    /\ sessionIds = {}

(***************************************************************************)
(* Spec: the application, from its construction.                           *)
(***************************************************************************)
Init ==
    /\ TrackerInit /\ AlertInit /\ AppInit
    /\ current_frame = "none" /\ notifier_enabled /\ eval = NoEval
    /\ telegram = NoTelegram

\* a second passes while the application runs
Clock == ~closed /\ Tick(MaxTime)

Next ==
    \/ StartDetection
    \/ UpdateFrame
    \/ EndOfStream
    \/ UserStop
    \/ CloseEvent
    \/ Clock

Spec == Init /\ [][Next]_vars

(***************************************************************************)
(* SpecAlert: trigger_alert called at arbitrary times, after a first frame *)
(* has been stored in current_frame, with the worker pool running.         *)
(***************************************************************************)
AInit ==
    /\ TrackerInit /\ AlertInit /\ AppInit /\ current_frame = "frame" /\ eval = NoEval
    /\ telegram = NoTelegram

ATrigger ==
    /\ Len(alertCalls) < MaxTriggers
    /\ SetAlertState(TriggerAlert(AlertState, <<"Missing PPE", <<"helmet">>>>))
    /\ UNCHANGED <<trackerVars, envVars, appVars>>

ATick == Tick(MaxClock)

ANext == ATrigger \/ ATick \/ ToggleEmail \/ JobStart \/ JobFinish

SpecAlert == AInit /\ [][ANext]_vars

(***************************************************************************)
(* SpecTracker: a fresh PersonTracker driven by update() calls alone.      *)
(***************************************************************************)
TInit ==
    /\ TrackerInit /\ AlertInit /\ AppInit
    /\ current_frame = "none" /\ ~notifier_enabled /\ eval = NoEval
    /\ telegram = NoTelegram

TUpdate == \E detections \in BoxLists : Update(detections)

TNext == TUpdate

SpecTracker == TInit /\ [][TNext]_vars

(***************************************************************************)
(* SpecEval: check_violations applied once to a frame showing one person   *)
(* and any selection of the detections of EvalPool, in either mode, with   *)
(* the shipped REQUIRED_PPE or with helmet alone, on either NumPy.         *)
(***************************************************************************)
\* the person of the frame: 100 x 200 pixels, area 20000
EvalPerson == <<0, 0, 100, 200>>

\* detections around the person; the comment gives intersection / person area
EvalPool ==
    << Det("helmet",    <<0, 0, 100, 80>>),      \* 8000 / 20000 = 0.4
       Det("helmet",    <<10, 10, 90, 60>>),     \* 4000 / 20000 = 0.2
       Det("helmet",    <<0, 0, 100, 60>>),      \* 6000 / 20000 = 0.3
       Det("gloves",    <<0, 100, 100, 200>>),   \* 0.5
       Det("vest",      <<0, 0, 400, 200>>),     \* 1, while the IoU is 0.25
       Det("boots",     <<0, 120, 100, 200>>),   \* 0.4
       Det("goggles",   <<0, 0, 100, 70>>),      \* 0.35
       Det("no_helmet", <<0, 0, 100, 80>>),      \* 0.4
       Det("no_helmet", <<0, 0, 100, 60>>),      \* 0.3
       Det("no_gloves", <<0, 100, 100, 200>>),   \* 0.5
       Det("no_goggle", <<0, 0, 100, 70>>) >>    \* 0.35

\* the detections of `pool` whose index is in S, in the order of the pool
RECURSIVE Selected(_, _, _)
Selected(pool, S, i) ==
    IF i > Len(pool) THEN <<>>
    ELSE (IF i \in S THEN <<pool[i]>> ELSE <<>>) \o Selected(pool, S, i + 1)

EvalFrames ==
    {<<Det(PERSON_CLASS, EvalPerson)>> \o Selected(EvalPool, S, 1) :
        S \in SUBSET (1..Len(EvalPool))}

\* REQUIRED_PPE edited to the helmet alone
HelmetOnly == <<"helmet">>

EInit ==
    /\ TrackerInit /\ AlertInit /\ AppInit
    /\ current_frame = "none" /\ ~notifier_enabled /\ telegram = NoTelegram
    /\ eval \in [wide : BOOLEAN, required : {REQUIRED_PPE, HelmetOnly}, mode : {1, 2},
                  dets : EvalFrames, done : {FALSE}, results : {<<>>}]

ECheck ==
    /\ ~eval.done
    /\ eval' = [eval EXCEPT !.done = TRUE,
                            !.results = CheckViolations(eval.wide, eval.required,
                                                        eval.dets, eval.mode)]
    /\ UNCHANGED <<trackerVars, alertVars, envVars, ledgerVars, dbVars, violation_mode>>

ENext == ECheck

SpecEval == EInit /\ [][ENext]_vars

(***************************************************************************)
(* SpecRequired: check_violations in mode 2 with REQUIRED_PPE edited to    *)
(* other subsets of the five items.                                        *)
(***************************************************************************)
RequiredLists == {<<"gloves">>, <<"goggles">>, <<"helmet", "gloves">>}

RInit ==
    /\ TrackerInit /\ AlertInit /\ AppInit
    /\ current_frame = "none" /\ ~notifier_enabled /\ telegram = NoTelegram
    /\ eval \in [wide : BOOLEAN, required : RequiredLists, mode : {2},
                  dets : EvalFrames, done : {FALSE}, results : {<<>>}]

RNext == ECheck

SpecRequired == RInit /\ [][RNext]_vars

(***************************************************************************)
(* SpecDb: update_daily_stats alone, called with any zone and any counters *)
(* of a session, on a clock that passes from one day to the next.          *)
(***************************************************************************)
Zones == {CAMERA_ZONE_NAME, "Loading Bay"}

DInit ==
    /\ TrackerInit /\ AlertInit /\ AppInit
    /\ current_frame = "none" /\ ~notifier_enabled /\ eval = NoEval
    /\ telegram = NoTelegram

DUpsert ==
    /\ Len(daily_calls) < MaxUpserts
    /\ \E zone_name \in Zones, total_people \in 0..MaxCount :
       \E compliant_people \in 0..total_people :
       \E violation_people \in {total_people - compliant_people} :
          /\ daily_stats' = UpdateDailyStats(daily_stats, daily_seq, zone_name, total_people,
                                             compliant_people, violation_people)
          /\ daily_seq' = daily_seq + 1
          /\ daily_calls' = Append(daily_calls,
                                   [date |-> Today, zone_name |-> zone_name,
                                    total_people |-> total_people,
                                    compliant_people |-> compliant_people,
                                    violation_people |-> violation_people])
    /\ UNCHANGED <<db_violations, db_detections, ledgerVars, violation_mode, eval>>
    /\ UNCHANGED <<trackerVars, alertVars, envVars>>

\* midnight passes: get_local_date() returns the next day
DNextDay ==
    /\ Today < MaxDay
    /\ now' = now + SecondsPerDay
    /\ UNCHANGED <<email_checked, notifier_enabled, telegram, trackerVars, alertVars,
                   appVars>>

DNext == DUpsert \/ DNextDay

SpecDb == DInit /\ [][DNext]_vars

(***************************************************************************)
(* SpecDegenerate: the application on frames that can show a person box of *)
(* no width beside a person wearing all five items.                        *)
(***************************************************************************)
GInit == Init

GFrame == \E dets \in DegenerateFrames : ProcessFrame(dets)

GNext == StartDetection \/ GFrame \/ Clock

SpecDegenerate == GInit /\ [][GNext]_vars

(***************************************************************************)
(* SpecAbsence: the application on frames that show one person, wearing    *)
(* all five items, or nobody.  missRun counts, for every live track, the   *)
(* processed frames since the frame that last showed the person; a frame   *)
(* showing nobody is processed while no run is over MemoryFrames.          *)
(***************************************************************************)
AbsenceFrames == {<<>>, Wearing(PersonA, PPE_PROPER)}

HInit == Init

HFrame ==
    \E dets \in AbsenceFrames :
        /\ dets = <<>> => \A id \in DOMAIN missRun : missRun[id] <= MemoryFrames
        /\ FrameStep(dets)
        /\ eval' = eval
        /\ missRun' = [id \in Ids(tracked_persons') |->
                          IF dets # <<>> THEN 0
                          ELSE IF id \in DOMAIN missRun THEN missRun[id] + 1 ELSE 0]

HNext == StartDetection \/ HFrame \/ UserStop \/ Clock

SpecAbsence == HInit /\ [][HNext]_vars

(***************************************************************************)
(* SpecRepeat: the application on frames that show one person at one       *)
(* place, wearing all five items or without a helmet.  eval keeps the      *)
(* detections of the latest frame.                                         *)
(***************************************************************************)
RepeatFrames == {Wearing(PersonA, kind) : kind \in Kinds}

KInit == Init

KFrame ==
    \E dets \in RepeatFrames :
        /\ FrameStep(dets)
        /\ eval' = [NoEval EXCEPT !.dets = dets, !.done = TRUE]
        /\ missRun' = missRun

KNext == StartDetection \/ KFrame \/ UserStop \/ Clock

SpecRepeat == KInit /\ [][KNext]_vars

(***************************************************************************)
(* SpecTelegram: the frame loop of src/05_roi_telegram_ppe_detection.py,   *)
(* whose trigger_alert sends the Telegram photo itself.                    *)
(***************************************************************************)
XInit ==
    /\ TrackerInit /\ AlertInit /\ AppInit
    /\ current_frame = "none" /\ ~notifier_enabled /\ eval = NoEval
    /\ telegram \in {[NoTelegram EXCEPT !.enabled = e, !.checked = e] : e \in BOOLEAN}

\* update_frame up to the call of requests.post in TelegramNotifier.send_photo,
\* or to its end when nothing is posted: check_violations gives
\* has_violation, trigger_alert and send_telegram_notification pass their
\* cooldowns
XUpdateFrame ==
    /\ telegram.pc = "idle"
    /\ telegram.frames < MaxFrames
    /\ \E has_violation \in BOOLEAN :
       LET alerting == has_violation /\ ~InCooldown(last_alert_time, ALERT_COOLDOWN)
           notifying == /\ alerting
                        /\ telegram.checked
                        /\ ~InCooldown(telegram.last_telegram_time, TELEGRAM_COOLDOWN)
           posting == notifying /\ telegram.enabled
           alerted == IF alerting THEN Append(alert_log, <<"ALERT", now>>) ELSE alert_log
       IN  /\ current_frame' = "frame"
           /\ last_alert_time' = IF alerting THEN now ELSE last_alert_time
           /\ alert_log' = IF notifying /\ ~posting
                           THEN Append(alerted, <<"TELEGRAM FAILED", now>>)
                           ELSE alerted
           /\ telegram' = [telegram EXCEPT
                             !.frames = @ + 1,
                             !.last_telegram_time = IF notifying THEN now ELSE @,
                             !.pc = IF posting THEN "send_photo" ELSE "idle",
                             !.inflight = posting]
    /\ UNCHANGED <<last_email_time, emailJobs, alertCalls, emailCalls>>
    /\ UNCHANGED <<now, email_checked, notifier_enabled, trackerVars, appVars>>

\* requests.post returns or raises (caught in send_photo); update_frame
\* goes on to its end
XSendReturn ==
    /\ telegram.pc = "send_photo"
    /\ \E success \in BOOLEAN :
          alert_log' = Append(alert_log,
                              <<IF success THEN "TELEGRAM" ELSE "TELEGRAM FAILED",
                                telegram.last_telegram_time>>)
    /\ telegram' = [telegram EXCEPT !.pc = "idle", !.inflight = FALSE]
    /\ UNCHANGED <<last_alert_time, last_email_time, current_frame, emailJobs,
                   alertCalls, emailCalls>>
    /\ UNCHANGED <<now, email_checked, notifier_enabled, trackerVars, appVars>>

\* the user clicks the Telegram checkbox; the click is handled by the
\* thread of the frame loop
XToggle ==
    /\ telegram.enabled
    /\ telegram.pc = "idle"
    /\ telegram' = [telegram EXCEPT !.checked = ~@]
    /\ UNCHANGED <<now, email_checked, notifier_enabled, trackerVars, alertVars, appVars>>

XTick == Tick(MaxTime)

XNext == XUpdateFrame \/ XSendReturn \/ XToggle \/ XTick

SpecTelegram == XInit /\ [][XNext]_vars

(***************************************************************************)
(* Claims about the alerts                                                 *)
(***************************************************************************)
Times(log) == [i \in 1..Len(log) |-> log[i][1]]

LogTimes(kind) ==
    LET IsKind(e) == e[1] = kind
        lines == SelectSeq(alert_log, IsKind)
    IN  [i \in 1..Len(lines) |-> lines[i][2]]

JobTimes == [j \in 1..Len(emailJobs) |-> emailJobs[j].t]

\* the gating the claim describes, for the calls `calls` of one channel and
\* the dispatches `fired` they led to
GatedAsClaimed(calls, fired, cooldown) ==
    /\ Len(calls) >= 1 => (Len(fired) >= 1 /\ fired[1] = calls[1])
    /\ calls = <<0, cooldown - 1>> => fired = <<0>>
    /\ calls = <<0, cooldown + 1>> => fired = <<0, cooldown + 1>>

\* C5: on each channel, triggers at t = 0 and t = cooldown - 1 lead to one
\* dispatch, triggers at t = 0 and t = cooldown + 1 lead to two, and the
\* first trigger of a channel that never fired dispatches.
C5_CooldownGating ==
    /\ GatedAsClaimed(alertCalls, LogTimes("ALERT"), ALERT_COOLDOWN)
    /\ GatedAsClaimed(Times(emailCalls), JobTimes, EMAIL_COOLDOWN)
    /\ GatedAsClaimed(Times(emailCalls), LogTimes("EMAIL"), EMAIL_COOLDOWN)

\* the e-mail channel was triggered at 0 and at cooldown + 1 and dispatched twice
C5_Witness ==
    /\ Times(emailCalls) = <<0, EMAIL_COOLDOWN + 1>>
    /\ JobTimes = <<0, EMAIL_COOLDOWN + 1>>
    /\ LogTimes("ALERT") = <<0, EMAIL_COOLDOWN + 1>>

\* a step that is a call of trigger_alert
IsTrigger == alertCalls' # alertCalls

AlertCooled == last_alert_time = NoTime \/ now - last_alert_time >= ALERT_COOLDOWN
EmailCooled == last_email_time = NoTime \/ now - last_email_time >= EMAIL_COOLDOWN

AlertDispatched ==
    /\ last_alert_time' = now
    /\ LogTimes("ALERT")' = Append(LogTimes("ALERT"), now)

EmailDispatched ==
    /\ last_email_time' = now
    /\ Len(emailJobs') = Len(emailJobs) + 1
    /\ emailJobs'[Len(emailJobs')].t = now

\* C6 as stated: a violation trigger dispatches on every channel whose own
\* cooldown has elapsed (or that never fired), whatever the state of the
\* other channel.
C6_AsStated ==
    [][IsTrigger =>
          /\ AlertCooled => AlertDispatched
          /\ (email_checked /\ EmailCooled) => EmailDispatched]_vars

\* C6 (amended): a violation trigger dispatches the audio/log alert when
\* the alert cooldown has elapsed (or no alert fired yet), whatever the
\* state of the e-mail channel; it dispatches an e-mail exactly when it
\* dispatches the alert, e-mail is enabled and the e-mail cooldown has
\* elapsed (or no e-mail fired yet): a trigger inside the alert cooldown
\* sends no e-mail.
C6_PerChannel ==
    [][IsTrigger =>
          /\ AlertCooled => AlertDispatched
          /\ (AlertCooled /\ email_checked /\ EmailCooled) => EmailDispatched
          /\ ~(AlertCooled /\ email_checked /\ EmailCooled) =>
                /\ last_email_time' = last_email_time
                /\ emailJobs' = emailJobs]_vars

\* both channels have dispatched twice
C6_Witness ==
    /\ Len(LogTimes("ALERT")) = 2
    /\ Len(emailJobs) = 2
    /\ last_email_time = last_alert_time

\* C7: a trigger on a channel whose cooldown has not elapsed changes
\* nothing: last_fired keeps its value, no job is submitted and no line is
\* added to the alert log.
C7_SuppressedIsNoOp ==
    [][IsTrigger =>
          /\ ~AlertCooled =>
                UNCHANGED <<last_alert_time, last_email_time, alert_log, emailJobs>>
          /\ (emailCalls' # emailCalls /\ ~EmailCooled) =>
                /\ UNCHANGED <<last_email_time, emailJobs>>
                /\ LogTimes("EMAIL")' = LogTimes("EMAIL")]_vars

\* a later trigger has been suppressed on the alert channel, which keeps
\* the time of the first
C7_Witness ==
    /\ Len(alertCalls) = 2
    /\ Len(LogTimes("ALERT")) = 1
    /\ last_alert_time = alertCalls[1]
    /\ alertCalls[2] > alertCalls[1]

\* C8: last_fired is set when the job is submitted, before it runs; a job
\* makes one send attempt; a failed job is not run again, and the triggers
\* that follow it inside the window it opened are suppressed.
C8_OneAttempt ==
    \A j \in 1..Len(emailJobs) :
        /\ emailJobs[j].attempts = (IF emailJobs[j].state = "queued" THEN 0 ELSE 1)
        /\ last_email_time # NoTime /\ emailJobs[j].t <= last_email_time
        /\ \A i \in 1..(j - 1) : emailJobs[j].t - emailJobs[i].t >= EMAIL_COOLDOWN

C8_FailedStaysFailed ==
    \A j \in 1..Len(emailJobs) :
        emailJobs[j].state = "failed" => emailJobs'[j] = emailJobs[j]

C8_NoRetry == [](C8_OneAttempt) /\ [][C8_FailedStaysFailed]_vars

\* the only job failed, and a trigger after the failure was suppressed
C8_Witness ==
    /\ Len(emailJobs) = 1
    /\ emailJobs[1].state = "failed"
    /\ Len(emailCalls) = 2
    /\ emailCalls[2][2] = 1
    /\ last_email_time = emailJobs[1].t

(***************************************************************************)
(* Claims about the tracker                                                *)
(***************************************************************************)
StrictlyIncreasing(s) == \A i, j \in 1..Len(s) : i < j => s[i] < s[j]

\* C1: in any sequence of update() calls without a reset, no two tracks,
\* live or already removed, get the same identity, and every identity
\* registered is greater than all identities registered before it.
C1_IdentityUniqueness ==
    /\ StrictlyIncreasing(regLog)
    /\ \A i, j \in 1..Len(tracked_persons) :
          i # j => tracked_persons[i].id # tracked_persons[j].id
    /\ Ids(tracked_persons) \subseteq SeqSet(regLog)

\* three tracks were created and the first of them has been removed
C1_Witness ==
    /\ Len(regLog) >= 3
    /\ regLog[1] \notin Ids(tracked_persons)
    /\ Len(tracked_persons) >= 1

C9_Removed ==
    /\ \A id \in Ids(tracked_persons) : missRun[id] <= MemoryFrames
    /\ \A e \in expired :
          /\ e.id \notin Ids(tracked_persons)
          /\ e.id \notin SeqSet(lastIds)

NoTrackNear(persons, c) ==
    \A t \in SeqSet(persons) : ~WithinMaxDistance(DistanceSq(c, t.centroid))

C9_Reappears ==
    \A e \in expired : \A k \in DOMAIN lastBoxes' \cap DOMAIN lastIds' :
        Centroid(lastBoxes'[k]) = e.centroid =>
            /\ lastIds'[k] # e.id
            /\ NoTrackNear(tracked_persons, e.centroid) =>
                  /\ lastIds'[k] > e.id
                  /\ lastIds'[k] \notin SeqSet(regLog)
                  /\ lastIds'[k] \in SeqSet(regLog')

C10_StartOfRun ==
    (Len(lastBoxes') = 1 /\ lastBoxes' # lastBoxes) =>
        /\ Len(lastIds') = 1
        /\ Len(regLog') <= Len(regLog) + 1
        /\ tracked_persons = <<>> => Len(regLog') = Len(regLog) + 1

C10_RestOfRun ==
    (Len(lastBoxes) = 1 /\ lastBoxes' = lastBoxes) =>
        /\ lastIds' = lastIds
        /\ regLog' = regLog
        /\ next_id' = next_id

C10_TrackingStability == [][C10_StartOfRun /\ C10_RestOfRun]_vars

\* the same single box was fed twice in a row
C10_Witness == repeated /\ Len(lastIds) = 1

(***************************************************************************)
(* Claims about the sessions of the application                            *)
(***************************************************************************)
\* C2 as stated: across update() and reset() calls of one process, an
\* identity once given to a track is never given to another track.
C2_NeverReused == SeqSet(regLog) \cap SeqSet(retired) = {}

\* C2 (amended): between two resets an identity once given to a track is
\* never given to another track; reset(), called at every session start,
\* restarts the numbering, so the first track of every session gets
\* identity 1 whatever identities earlier sessions handed out.
C2_NeverReusedInSession ==
    /\ StrictlyIncreasing(regLog)
    /\ Ids(tracked_persons) \subseteq SeqSet(regLog)
    /\ regLog # <<>> => regLog[1] = 1

\* the second session has registered a track under the identity the first
\* track of the first session had
C2_Witness ==
    /\ session = 2
    /\ regLog # <<>>
    /\ retired # <<>>
    /\ regLog[1] = retired[1]

\* the rows of `table` the running session wrote for identity id
RowsOf(table, id) ==
    Cardinality({k \in 1..Len(table) :
                    table[k].session = session /\ table[k].person_id = id})

\* C3: in a session every identity the tracker returned is counted once
\* and logged once: it is in the logged set, the counters went up by one
\* for it, and it has one detection row and at most one violation row.
C3_ExactlyOnce ==
    /\ \A id \in sessionIds :
          /\ id \in logged_person_ids
          /\ RowsOf(db_detections, id) = 1
          /\ RowsOf(db_violations, id) <= 1
    /\ session_total_people = Cardinality(sessionIds)
    /\ session_compliant + session_violations = session_total_people

\* a database call raised: an identity is counted and has no detection row
C3_Witness ==
    /\ failures = 1
    /\ \E id \in logged_person_ids : RowsOf(db_detections, id) = 0

\* C4: at every point of a session the counter total is at most the number
\* of distinct identities update() has returned since the session started.
C4_DedupInvariant == session_total_people <= Cardinality(sessionIds)

\* two identities are counted, and one of them stayed out of a later frame
C4_Witness ==
    /\ cap
    /\ session_total_people = 2
    /\ Cardinality(sessionIds) = 2
    /\ \E i \in 1..Len(tracked_persons) : tracked_persons[i].frames_missing > 0

(***************************************************************************)
(* Claims about the list update() returns and about empty frames           *)
(***************************************************************************)
\* the live tracks with identity id
TracksOf(persons, id) == {i \in 1..Len(persons) : persons[i].id = id}

\* C11: update(boxes) returns one identity per input box, in input order:
\* the list has the length of the input and its k-th identity names the
\* track that now sits at the centroid of the k-th box, in every branch.
C11_OneIdentityPerBox ==
    /\ Len(lastIds) = Len(lastBoxes)
    /\ \A k \in 1..Len(lastBoxes) :
          \E i \in TracksOf(tracked_persons, lastIds[k]) :
              /\ tracked_persons[i].centroid = Centroid(lastBoxes[k])
              /\ tracked_persons[i].frames_missing = 0

\* two boxes came in an order that is not the order of their identities:
\* the first was registered by this call, the second matched an older track
C11_Witness ==
    /\ Len(lastBoxes) = 2
    /\ Len(lastIds) = 2
    /\ lastIds[1] > lastIds[2]
    /\ lastBoxes[1] # lastBoxes[2]

\* what an empty update() leaves of the tracks: those still inside the
\* memory window, one frame older
AgedByOne(persons) ==
    LET Stays(t) == t.frames_missing + 1 <= MemoryFrames
        kept == SelectSeq(persons, Stays)
    IN  [i \in 1..Len(kept) |->
            [id |-> kept[i].id, centroid |-> kept[i].centroid,
             frames_missing |-> kept[i].frames_missing + 1, logged |-> kept[i].logged]]

\* C12: update() with an empty input adds one to the missing counter of
\* every track, registers nothing (next_id unchanged), leaves the centroids
\* alone, removes the tracks whose counter is then over the memory window,
\* and returns the empty list.
C12_EmptyUpdate ==
    [][lastBoxes' = <<>> =>
          /\ tracked_persons' = AgedByOne(tracked_persons)
          /\ next_id' = next_id
          /\ regLog' = regLog
          /\ lastIds' = <<>>]_vars

\* an empty update() came after a track was removed and left a track that
\* has been missing for a frame or more
C12_Witness ==
    /\ lastBoxes = <<>>
    /\ expired # {}
    /\ tracked_persons # <<>>
    /\ \A i \in 1..Len(tracked_persons) : tracked_persons[i].frames_missing >= 1

(***************************************************************************)
(* Claims about check_violations                                           *)
(***************************************************************************)
\* the area two boxes (x1, y1, x2, y2) share
InterArea(b1, b2) ==
    LET w == Min(b1[3], b2[3]) - Max(b1[1], b2[1])
        h == Min(b1[4], b2[4]) - Max(b1[2], b2[2])
    IN  IF w < 0 \/ h < 0 THEN 0 ELSE w * h

BoxArea(b) == (b[3] - b[1]) * (b[4] - b[2])

\* intersection area / person-box area is strictly greater than 0.3
RatioAbove(person, box) ==
    BoxArea(person) > 0 /\ 10 * InterArea(person, box) > 3 * BoxArea(person)

\* the classes with a detection whose ratio to the person is above 0.3
ClassesAbove(dets, person) ==
    {dets[k].class : k \in {j \in 1..Len(dets) : RatioAbove(person, dets[j].bbox)}}

\* the classes the evaluated call associated with the person
ClassesAssociated(e) ==
    {c \in SeqSet(PPE_PROPER) \cup SeqSet(PPE_VIOLATIONS) :
        Near(e.wide, e.dets, e.dets[1].bbox, c)}

\* the call under observation has returned, in mode `mode`
Evaluated(mode) == eval.done /\ eval.mode = mode /\ Len(eval.results) = 1

\* C13: in mode 1 a person with a violation-class detection whose overlap
\* ratio is above 0.3 is in violation whatever proper PPE is associated
\* with the person, and the reason names a violation class, not the
\* missing items; a person with no violation class associated is in
\* violation exactly when one of the five proper items is not associated,
\* and the reason then lists the missing items.
C13_ModeAPrecedence ==
    Evaluated(1) =>
        LET r == eval.results[1]
            person == eval.dets[1].bbox
            associated == ClassesAssociated(eval)
        IN  /\ ClassesAbove(eval.dets, person) \cap SeqSet(PPE_VIOLATIONS) # {} =>
                  /\ r.has_violation
                  /\ r.violation_message[1] = "Violation detected"
                  /\ r.violation_message[2] \in SeqSet(PPE_VIOLATIONS) \cap associated
            /\ associated \cap SeqSet(PPE_VIOLATIONS) = {} =>
                  /\ r.has_violation = (SeqSet(PPE_PROPER) \ associated # {})
                  /\ r.has_violation =>
                        /\ r.violation_message[1] = "Missing PPE"
                        /\ SeqSet(r.violation_message[2]) = SeqSet(PPE_PROPER) \ associated

\* all five proper items and no_helmet lie over the person with a ratio
\* above 0.3, and the person is in violation for no_helmet
C13_Witness ==
    /\ Evaluated(1)
    /\ SeqSet(PPE_PROPER) \cup {"no_helmet"} \subseteq
          ClassesAbove(eval.dets, eval.dets[1].bbox)
    /\ eval.results[1].has_violation
    /\ eval.results[1].violation_message = <<"Violation detected", "no_helmet">>

\* C14: in mode 2 the required items alone decide: the person is in
\* violation exactly when a required item is not associated or the explicit
\* violation class of a required item is associated; items outside the
\* required list, missing or not, change nothing.  With helmet alone
\* required, helmet associated and gloves missing is compliant, and helmet
\* not associated is in violation.
C14_ModeBScoping ==
    Evaluated(2) =>
        LET r == eval.results[1]
            associated == ClassesAssociated(eval)
            required == SeqSet(eval.required)
        IN  /\ r.has_violation =
                  \E item \in required :
                      item \notin associated \/ ("no_" \o item) \in associated
            /\ (eval.required = HelmetOnly /\ "helmet" \notin associated) => r.has_violation
            /\ (eval.required = HelmetOnly /\ "helmet" \in associated
                    /\ "no_helmet" \notin associated) => ~r.has_violation

\* helmet alone is required; the person has a helmet and neither gloves
\* nor vest, and is compliant
C14_Witness ==
    /\ Evaluated(2)
    /\ eval.required = HelmetOnly
    /\ "helmet" \in ClassesAbove(eval.dets, eval.dets[1].bbox)
    /\ ClassesAbove(eval.dets, eval.dets[1].bbox) \cap {"gloves", "vest", "no_helmet"} = {}
    /\ ~eval.results[1].has_violation

\* intersection area / person-box area is exactly 0.3
RatioExactly(person, box) ==
    BoxArea(person) > 0 /\ 10 * InterArea(person, box) = 3 * BoxArea(person)

\* C15: a detection is associated with a person exactly when intersection
\* area / person-box area is strictly greater than 0.3: every proper item
\* is flagged present exactly when a detection of its class has such a
\* ratio, and the violation class reported has one; a ratio of exactly 0.3
\* does not associate.  The helmet (10, 10, 90, 60) on the person
\* (0, 0, 100, 200) has ratio 0.2: alone it leaves the helmet missing.
C15_OverlapThreshold ==
    (eval.done /\ Len(eval.results) = 1) =>
        LET r == eval.results[1]
            person == eval.dets[1].bbox
            above == ClassesAbove(eval.dets, person)
        IN  /\ \A item \in SeqSet(PPE_PROPER) : r.ppe_status[item] = (item \in above)
            /\ eval.mode = 1 =>
                  /\ above \cap SeqSet(PPE_VIOLATIONS) # {} => r.has_violation
                  /\ (r.has_violation /\ r.violation_message[1] = "Violation detected") =>
                        r.violation_message[2] \in above
            /\ (eval.mode = 1 /\ eval.dets = <<eval.dets[1], EvalPool[2]>>) =>
                  /\ r.has_violation
                  /\ r.violation_message[1] = "Missing PPE"
                  /\ "helmet" \in SeqSet(r.violation_message[2])

\* the only helmet of the frame has a ratio of exactly 0.3 and the call
\* returned the helmet as present
C15_Witness ==
    /\ eval.done
    /\ Len(eval.results) = 1
    /\ \A k \in 2..Len(eval.dets) :
          eval.dets[k].class = "helmet" => RatioExactly(eval.dets[1].bbox, eval.dets[k].bbox)
    /\ \E k \in 2..Len(eval.dets) : eval.dets[k].class = "helmet"
    /\ eval.results[1].ppe_status["helmet"]

(***************************************************************************)
(* Claims about the ledger, the session start and the session stop         *)
(***************************************************************************)
\* the rows of `table` the running session wrote for identity id
SessionRows(table, id) ==
    {k \in 1..Len(table) : table[k].session = session /\ table[k].person_id = id}

\* the identities of the logged set first seen in violation / compliant,
\* going by the detection rows of the session
LoggedAs(is_compliant) ==
    {id \in logged_person_ids :
        \E k \in SessionRows(db_detections, id) :
            db_detections[k].is_compliant = is_compliant}

C16_Ledger ==
    /\ session_total_people = Cardinality(logged_person_ids)
    /\ session_violations = Cardinality(LoggedAs(FALSE))
    /\ session_compliant = Cardinality(LoggedAs(TRUE))
    /\ \A id \in logged_person_ids :
          /\ Cardinality(SessionRows(db_detections, id)) = 1
          /\ \A k \in SessionRows(db_detections, id) :
                /\ db_detections[k].is_compliant =
                      (\A item \in SeqSet(PPE_PROPER) : db_detections[k].ppe_status[item])
                /\ Cardinality(SessionRows(db_violations, id)) =
                      (IF db_detections[k].is_compliant THEN 0 ELSE 1)

\* a frame that logs someone in violation triggers the alert, which fires
\* unless it is inside its cooldown; a frame that logs nobody in violation
\* triggers nothing
C16_Alert ==
    /\ (session_violations' > session_violations /\ AlertCooled) =>
          /\ last_alert_time' = now
          /\ Len(alert_log') > Len(alert_log)
    /\ session_violations' = session_violations =>
          UNCHANGED <<last_alert_time, last_email_time, alert_log, emailJobs>>

\* C16: the first observation of an identity in a session marks it logged
\* and adds one to total; a violation adds one to violations, writes a
\* violation row and a detection row and triggers the alert; a compliant
\* result adds one to compliant and writes a detection row alone, with no
\* alert.
C16_FirstObservation == [](C16_Ledger) /\ [][C16_Alert]_vars

\* one frame showed a compliant person and a person in violation: both are
\* logged, with two detection rows, one violation row and one alert
C16_Witness ==
    /\ session_total_people = 2
    /\ session_compliant = 1
    /\ session_violations = 1
    /\ Len(db_detections) = 2
    /\ Len(db_violations) = 1
    /\ LogTimes("ALERT") = <<now>>
    /\ failures = 0

\* a step that starts a session
IsStart == session' = session + 1

C17_AfterStart ==
    IsStart =>
        /\ session_total_people' = 0
        /\ session_compliant' = 0
        /\ session_violations' = 0
        /\ logged_person_ids' = {}
        /\ tracked_persons' = <<>>
        /\ cap'

C17_FirstTrack ==
    (regLog = <<>> /\ regLog' # <<>>) => (next_id = 1 /\ regLog'[1] = 1)

\* C17: starting a session resets the ledger and the tracker: right after
\* the start total, compliant and violations are 0, the logged set is empty
\* and the tracker has no track, and the first track registered in the
\* session gets identity 1.
C17_StartResets == [][C17_AfterStart /\ C17_FirstTrack]_vars

\* a second session has just started after a session that counted two
\* persons and left tracks behind: nothing of it is left in the ledger or
\* the tracker
C17_Witness ==
    /\ session = 2
    /\ cap
    /\ Len(retired) = 2
    /\ Len(db_detections) = 2
    /\ session_total_people = 0
    /\ logged_person_ids = {}
    /\ tracked_persons = <<>>
    /\ next_id = 1

\* a step that stops a running session
IsStop == cap /\ ~cap'

\* the rows of the daily aggregate for today and this zone
TodayRows(table) ==
    {row \in table : row.date = Today /\ row.zone_name = CAMERA_ZONE_NAME}

\* the row holds the counters of the session
HoldsSession(row) ==
    /\ row.total_people = session_total_people
    /\ row.compliant_people = session_compliant
    /\ row.violation_people = session_violations

C18_Flushes == IsStop => \E row \in TodayRows(daily_stats') : HoldsSession(row)

C18_NoFrameAfterStop ==
    (~cap /\ ~cap') =>
        UNCHANGED <<tracked_persons, next_id, session_total_people, session_compliant,
                    session_violations, logged_person_ids, db_violations, db_detections,
                    alert_log, last_alert_time>>

\* C18: every stop of a session (user stop, end of stream, window close)
\* ends the frame loop and flushes the counters of the session: the
\* aggregate row of the day and zone then holds the session's total,
\* compliant and violations, and no frame is processed until the next start.
C18_SessionStop == [][C18_Flushes /\ C18_NoFrameAfterStop]_vars

\* a session that counted nobody was stopped after a session that counted
\* somebody: the row of the day still holds the counters of the earlier one
C18_Witness ==
    /\ ~cap
    /\ session = 2
    /\ session_total_people = 0
    /\ failures = 0
    /\ \E row \in TodayRows(daily_stats) : row.total_people > 0

\* the {date, zone} key of a row or of a call
Key(r) == <<r.date, r.zone_name>>

\* the counts of a row or of a call
Counts(r) == <<r.total_people, r.compliant_people, r.violation_people>>

\* the table without the ids of its rows
Content(table) ==
    {[date |-> r.date, zone_name |-> r.zone_name, total_people |-> r.total_people,
      compliant_people |-> r.compliant_people, violation_people |-> r.violation_people,
      compliance_rate |-> r.compliance_rate] : r \in table}

\* the i-th call is the last call for its key
IsLastForKey(i) ==
    \A j \in (i + 1)..Len(daily_calls) : Key(daily_calls[j]) # Key(daily_calls[i])

C19_OneRowPerKey ==
    \A r1, r2 \in daily_stats : Key(r1) = Key(r2) => r1 = r2

C19_LastValues ==
    /\ \A i \in 1..Len(daily_calls) :
          IsLastForKey(i) =>
             \E r \in daily_stats :
                /\ Key(r) = Key(daily_calls[i])
                /\ Counts(r) = Counts(daily_calls[i])
    /\ \A r \in daily_stats : \E i \in 1..Len(daily_calls) : Key(r) = Key(daily_calls[i])

\* a step that calls update_daily_stats with the arguments, and on the day,
\* of the call before it
IsRepeatedUpsert ==
    /\ Len(daily_calls) > 0
    /\ Len(daily_calls') = Len(daily_calls) + 1
    /\ daily_calls'[Len(daily_calls')] = daily_calls[Len(daily_calls)]

C19_RepeatKeepsContent ==
    IsRepeatedUpsert => Content(daily_stats') = Content(daily_stats)

C19_RepeatKeepsTable == IsRepeatedUpsert => daily_stats' = daily_stats

\* C19 (amended): update_daily_stats replaces the row of its {date, zone} key
\* wholesale: after any sequence of calls the table has at most one row per
\* {date, zone}, the row holds the counts of the last call for its key (not
\* the sum with earlier calls), and repeating the same call leaves the
\* dates, zones, counts and rates of the table unchanged; the row of the
\* key gets a new id.
C19_UpsertReplaces ==
    [](C19_OneRowPerKey /\ C19_LastValues) /\ [][C19_RepeatKeepsContent]_vars

\* C19 as stated: repeating the same call leaves the table unchanged.
C19_AsStated ==
    [](C19_OneRowPerKey /\ C19_LastValues) /\ [][C19_RepeatKeepsTable]_vars

\* three calls for one key, the last two the same, after a call with other
\* counts; and a row of another day beside it
C19_Witness ==
    /\ Len(daily_calls) = 3
    /\ Key(daily_calls[1]) = Key(daily_calls[2])
    /\ Counts(daily_calls[1]) = <<1, 1, 0>>
    /\ Counts(daily_calls[2]) = <<1, 0, 1>>
    /\ daily_calls[3] = daily_calls[2]
    /\ \E r \in daily_stats : Counts(r) = <<1, 0, 1>> /\ r.id = 3
    /\ Cardinality(daily_stats) = 1

\* a frame during which a database call raised
IsFailedFrame == cap /\ cap' /\ failures' = failures + 1

\* the records the step should have written, going by the counters, less
\* the records it wrote
RecordsLost ==
    (session_total_people' - session_total_people)
      + (session_violations' - session_violations)
      - (Len(db_detections') - Len(db_detections))
      - (Len(db_violations') - Len(db_violations))

C20_FrameCompleted ==
    IsFailedFrame =>
        /\ sessionIds' \subseteq logged_person_ids'
        /\ RecordsLost = 1
        /\ (session_violations' > session_violations /\ AlertCooled) =>
              last_alert_time' = now

\* C20: a database call that raises is contained: the frame still processes
\* every person it shows (each identity the tracker returned is logged),
\* exactly the record of the failed call is missing, and a person logged
\* in violation still triggers the alert.
C20_FailureContained == [][C20_FrameCompleted]_vars

\* log_violation raised for the first of two persons of a frame: the
\* second is not in the ledger, and no alert was triggered
C20_Witness ==
    /\ cap
    /\ failures = 1
    /\ Cardinality(sessionIds) = 2
    /\ Cardinality(logged_person_ids) = 1
    /\ session_violations = 1
    /\ db_violations = <<>>
    /\ db_detections = <<>>
    /\ alert_log = <<>>

\* the centroid the tracker computes for the box of no width
DegenerateCentroid == Centroid(XYWH(PersonZ))

\* C21: a detection with a box of zero area is dropped on its own: beside a
\* person wearing all five items, a person box of no width gets no track,
\* is not counted (nobody is counted in violation), writes no violation
\* row and triggers no alert, while the other person is processed.
C21_DegenerateDropped ==
    /\ \A i \in 1..Len(tracked_persons) : tracked_persons[i].centroid # DegenerateCentroid
    /\ session_violations = 0
    /\ db_violations = <<>>
    /\ alert_log = <<>>
    /\ last_alert_time = NoTime

\* one frame showed the person wearing everything and the box of no width:
\* both have a track and are counted, the box of no width in violation,
\* with a violation row and an alert
C21_Witness ==
    /\ Len(tracked_persons) = 2
    /\ tracked_persons[2].centroid = DegenerateCentroid
    /\ session_total_people = 2
    /\ session_compliant = 1
    /\ session_violations = 1
    /\ Len(db_violations) = 1
    /\ Len(db_detections) = 2
    /\ last_alert_time = now

\* C22: no frame-processing step waits for network I/O: while the request
\* of a notification is in flight the frame loop is back at its idle
\* position, where the next frame can be processed.
C22_NoNetworkWait == telegram.inflight => telegram.pc = "idle"

\* the frame loop of the Telegram variant has sat in requests.post for
\* three seconds
C22_Witness ==
    /\ telegram.inflight
    /\ telegram.pc = "send_photo"
    /\ telegram.last_telegram_time = 0
    /\ now = 3

\* a step of a worker of the pool: a job changes, none is submitted
IsJobStep == Len(emailJobs') = Len(emailJobs) /\ emailJobs' # emailJobs

\* what a job was given when it was submitted
Snapshot(job) == <<job.t, job.msg, job.image>>

C23_JobStep ==
    IsJobStep =>
        /\ UNCHANGED <<trackerVars, ledgerVars, dbVars>>
        /\ UNCHANGED <<last_alert_time, last_email_time, current_frame, alert_log>>
        /\ \E j \in 1..Len(emailJobs) :
              /\ Snapshot(emailJobs'[j]) = Snapshot(emailJobs[j])
              /\ \A i \in 1..Len(emailJobs) : i # j => emailJobs'[i] = emailJobs[i]

\* a trigger finds the cooldowns as the frame loop left them, whatever the
\* jobs did: it fires exactly when now - last_alert_time >= ALERT_COOLDOWN
C23_TriggerStep ==
    Len(alertCalls') > Len(alertCalls) =>
        (Len(alert_log') > Len(alert_log)) =
            (last_alert_time = NoTime \/ now - last_alert_time >= ALERT_COOLDOWN)

\* C23: notification jobs are isolated from the frame loop: a step of a job
\* changes that job alone, keeps the message and image it was submitted
\* with, and leaves tracker, ledger, tables, cooldown times and alert log
\* as they are, whether the job succeeds or fails; triggers go on as the
\* cooldown says, under every interleaving of workers and triggers.
C23_JobsIsolated == [][C23_JobStep /\ C23_TriggerStep]_vars

\* the first job failed; a trigger after its failure submitted a second
\* job, which was sent
C23_Witness ==
    /\ Len(emailJobs) = 2
    /\ emailJobs[1].state = "failed"
    /\ emailJobs[2].state = "sent"
    /\ Len(emailCalls) = 2
    /\ emailCalls[2][2] = 1

\* the explicit violation class of a category (violation_map of
\* 04_roi_alert_ppe_detection.py); the vest has none
ViolationClassOf(item) ==
    CASE item = "helmet" -> "no_helmet"
      [] item = "goggles" -> "no_goggle"
      [] item = "gloves" -> "no_gloves"
      [] item = "boots" -> "no_boots"
      [] OTHER -> ""

\* C24: in mode 2 a person with a detection, of overlap ratio above 0.3, of
\* the explicit violation class of a required category is in violation,
\* whatever other violation classes and proper items are associated.
C24_RequiredViolationWins ==
    Evaluated(2) =>
        ((\E item \in SeqSet(eval.required) :
              ViolationClassOf(item) \in ClassesAbove(eval.dets, eval.dets[1].bbox))
            => eval.results[1].has_violation)

\* gloves alone are required; gloves, no_gloves and no_helmet lie over the
\* person, and the person is compliant
C24_Witness ==
    /\ Evaluated(2)
    /\ eval.required = <<"gloves">>
    /\ {"gloves", "no_gloves", "no_helmet"} \subseteq
          ClassesAbove(eval.dets, eval.dets[1].bbox)
    /\ ~eval.results[1].has_violation

\* C25: every processed frame in which a live track has no matching person
\* box adds one to its frames_missing, frames showing nobody included: the
\* counter of a live track is the number of processed frames since its
\* person was last seen, and a track whose person was away for more than
\* memory_frames processed frames is gone, so that the person gets a new
\* identity on return.
C25_AbsenceAges ==
    \A i \in 1..Len(tracked_persons) :
        LET t == tracked_persons[i]
        IN  t.id \in DOMAIN missRun =>
               /\ t.frames_missing = missRun[t.id]
               /\ missRun[t.id] <= MemoryFrames

\* the person of track 1 was away for memory_frames + 1 processed frames:
\* the track is live and its counter is 0
C25_Witness ==
    /\ cap
    /\ Len(tracked_persons) = 1
    /\ tracked_persons[1].id = 1
    /\ tracked_persons[1].frames_missing = 0
    /\ 1 \in DOMAIN missRun
    /\ missRun[1] = MemoryFrames + 1

\* the records and alerts of the application
Outputs ==
    <<db_violations, db_detections, alert_log, emailJobs, last_alert_time, last_email_time>>

C26_NoNewIdentity ==
    (cap /\ cap' /\ logged_person_ids' = logged_person_ids) =>
        /\ UNCHANGED <<session_total_people, session_compliant, session_violations>>
        /\ UNCHANGED Outputs

C26_RowsKept ==
    (cap /\ cap') =>
        \A id \in logged_person_ids :
            /\ id \in logged_person_ids'
            /\ SessionRows(db_detections', id) = SessionRows(db_detections, id)
            /\ SessionRows(db_violations', id) = SessionRows(db_violations, id)
            /\ \A k \in SessionRows(db_detections, id) : db_detections'[k] = db_detections[k]

\* C26: the first observation fixes the verdict of an identity for the
\* session: a frame that logs no new identity changes no counter, writes
\* no row and triggers no alert, and no frame adds or changes a row of an
\* identity already logged, also when the identity is now seen with the
\* other verdict.
C26_VerdictFixed == [][C26_NoNewIdentity /\ C26_RowsKept]_vars

\* identity 1 was logged as compliant, and the latest frame showed the
\* person without a helmet: nothing counts a violation
C26_Witness ==
    /\ cap
    /\ eval.done
    /\ eval.dets = Wearing(PersonA, NoHelmet)
    /\ logged_person_ids = {1}
    /\ failures = 0
    /\ session_compliant = 1
    /\ session_violations = 0
    /\ \E k \in SessionRows(db_detections, 1) : db_detections[k].is_compliant
    /\ db_violations = <<>>
    /\ alert_log = <<>>

\* the live tracks that the calls before this one left unmatched exactly
\* memory_frames times in a row
AtBoundary ==
    {i \in 1..Len(tracked_persons) :
        /\ tracked_persons[i].id \in DOMAIN missRun
        /\ missRun[tracked_persons[i].id] = MemoryFrames}

\* the call in this step has a box at the centroid of track i
BoxAtCentroid(i) ==
    \E k \in 1..Len(lastBoxes') : Centroid(lastBoxes'[k]) = tracked_persons[i].centroid

\* the call in this step has one box, at the centroid of track i, and no
\* track older than i has that centroid
AloneAtCentroid(i) ==
    /\ Len(lastBoxes') = 1
    /\ Centroid(lastBoxes'[1]) = tracked_persons[i].centroid
    /\ \A j \in 1..(i - 1) : tracked_persons[j].centroid # tracked_persons[i].centroid

\* this step is a call of update()
IsUpdateCall == missRun' # missRun \/ lastBoxes' # lastBoxes \/ tracked_persons' # tracked_persons

C27_Window ==
    \A i \in 1..Len(tracked_persons) :
        LET t == tracked_persons[i]
        IN  /\ 0 <= t.frames_missing /\ t.frames_missing <= MemoryFrames
            /\ t.id \in DOMAIN missRun /\ t.frames_missing = missRun[t.id]
            /\ t.id \in SeqSet(lastIds) => t.frames_missing = 0

C27_Removal ==
    \A i \in 1..Len(tracked_persons) :
        LET id == tracked_persons[i].id
        IN  (IsUpdateCall /\ id \notin SeqSet(lastIds')) =>
               (id \in Ids(tracked_persons')) = (i \notin AtBoundary)

C27_RematchAlone ==
    \A i \in AtBoundary :
        AloneAtCentroid(i) => lastIds' = <<tracked_persons[i].id>>

C27_RematchAny ==
    \A i \in AtBoundary :
        BoxAtCentroid(i) =>
            \E k \in 1..Len(lastBoxes') :
                /\ Centroid(lastBoxes'[k]) = tracked_persons[i].centroid
                /\ lastIds'[k] = tracked_persons[i].id

\* C27 (amended): a track left unmatched for exactly memory_frames calls in
\* a row is still live; a call whose only box is at its last centroid gives
\* that box the old identity, unless an older track has the same centroid;
\* the track is removed by the next call that leaves it unmatched, and no
\* track is removed before.  Every live track has 0 <= frames_missing <=
\* memory_frames after every call, and a matched track has 0.
C27_MemoryBoundary == [](C27_Window) /\ [][C27_Removal /\ C27_RematchAlone]_vars

\* C27 as stated: any call with a box at the last centroid of such a track
\* gives that box the old identity.
C27_AsStated == [](C27_Window) /\ [][C27_Removal /\ C27_RematchAny]_vars

\* a live track was left unmatched exactly memory_frames times in a row
\* and has frames_missing = memory_frames, after another track was removed
\* by its (memory_frames + 1)-th unmatched call
C27_Witness ==
    /\ expired # {}
    /\ \E i \in 1..Len(tracked_persons) :
          /\ tracked_persons[i].frames_missing = MemoryFrames
          /\ missRun[tracked_persons[i].id] = MemoryFrames

\* C28: in every reachable state total = compliant + violations and total
\* is the size of the logged set, also after a frame that a raising
\* database call cut short.
C28_CountersAgree ==
    /\ session_total_people = session_compliant + session_violations
    /\ session_total_people = Cardinality(logged_person_ids)

\* log_violation raised for the second person of a frame: both persons are
\* counted, the second has no row
C28_Witness ==
    /\ cap
    /\ failures = 1
    /\ session_total_people = 2
    /\ session_violations = 1
    /\ Cardinality(logged_person_ids) = 2
    /\ Len(db_detections) = 1
    /\ db_violations = <<>>

\* C29: within one update() call a track goes to at most one box: the
\* identities returned for one frame are pairwise distinct, also for
\* identical boxes, and every live identity is smaller than next_id.
C29_DistinctInFrame ==
    /\ \A j, k \in 1..Len(lastIds) : j # k => lastIds[j] # lastIds[k]
    /\ \A i \in 1..Len(tracked_persons) : tracked_persons[i].id < next_id
    /\ \A k \in 1..Len(lastIds) : lastIds[k] < next_id

\* the same box came twice in one call: the first took the track that was
\* there, the second was registered
C29_Witness ==
    /\ Len(lastBoxes) = 2
    /\ lastBoxes[1] = lastBoxes[2]
    /\ lastIds = <<1, 3>>
    /\ regLog = <<1, 2, 3>>
    /\ next_id = 4

\* the number of alerts in a log
AlertsIn(log) == Cardinality({k \in 1..Len(log) : log[k][1] = "ALERT"})

\* the violation rows of the session
SessionViolationRows == {k \in 1..Len(db_violations) : db_violations[k].session = session}

C30_Records ==
    /\ Cardinality(SessionViolationRows) = session_violations
    /\ \A k \in SessionViolationRows :
          /\ db_violations[k].person_id \in logged_person_ids
          /\ \E d \in SessionRows(db_detections, db_violations[k].person_id) :
                ~db_detections[d].is_compliant

C30_Alerts ==
    AlertsIn(alert_log') - AlertsIn(alert_log) <= session_violations' - session_violations

\* C30: the records do not depend on the cooldown: every identity counted
\* in violation has its violation row and its detection row, whether or
\* not its alert was suppressed; no alert is fired but by a frame that
\* counts a new identity in violation, so the alerts fired in a session
\* never outnumber the violations counter.
C30_PersistenceIgnoresCooldown == [](C30_Records) /\ [][cap /\ cap' => C30_Alerts]_vars

\* two persons were first seen in violation in one second: both have their
\* rows, one alert was fired and the other suppressed
C30_Witness ==
    /\ cap
    /\ failures = 0
    /\ session_violations = 2
    /\ Cardinality(SessionViolationRows) = 2
    /\ Cardinality({k \in 1..Len(db_detections) : db_detections[k].session = session}) = 2
    /\ AlertsIn(alert_log) = 1
    /\ now = 0

====
